---- MODULE Spec2Model ----
(***************************************************************************)
(* Stripe webhook fulfillment pipeline of enrollait-backend                *)
(* (src/app/api/routes/stripe_webhooks.py): two-phase webhook              *)
(* verification, the order state machine and the "ensure user, then        *)
(* enroll in every linked course" saga against Moodle.                     *)
(*                                                                         *)
(* Every committed SQL statement and every Moodle call of a request is one *)
(* atomic step; requests run in independent execution contexts (Handlers)  *)
(* and interleave between those steps.                                     *)
(***************************************************************************)
EXTENDS Integers, Sequences, FiniteSets, TLC

\* ---------------------------------------------------------------------
\* Bounds
\* ---------------------------------------------------------------------
\* webhook deliveries received in one behaviour
MaxDeliveries == 2
\* failures injected by the environment (Moodle call errors, failed writes)
MaxFaults == 1
\* checkout-session requests received in one behaviour
MaxCheckouts == 2
\* product create and update requests received in one behaviour
MaxProductOps == 2

\* request execution contexts that can be in flight at the same time
Handlers == {1, 2}

\* ---------------------------------------------------------------------
\* Database content that the webhook pipeline only reads
\* ---------------------------------------------------------------------
\* tenants table: tenant 1 fully configured, tenant 2 has Stripe but no
\* Moodle, tenant 3 has no webhook secret.
\* For checkout: tenant 2 has no host, tenant 3 no Stripe secret key.
tenants ==
    1 :> [stripe_webhook_secret |-> "whsec1", moodle_url |-> "https://m1", moodle_token |-> "tok1",
          stripe_secret_key |-> "sk1", host |-> "school1.com"]
 @@ 2 :> [stripe_webhook_secret |-> "whsec2", moodle_url |-> "", moodle_token |-> "",
          stripe_secret_key |-> "sk2", host |-> ""]
 @@ 3 :> [stripe_webhook_secret |-> "", moodle_url |-> "https://m3", moodle_token |-> "tok3",
          stripe_secret_key |-> "", host |-> "school3.com"]

\* ---------------------------------------------------------------------
\* Prices.  A decimal amount is held in thousandths (19.99 is 19990), an
\* amount in minor units (cents) as an integer.
\* ---------------------------------------------------------------------
\* a price that is None
NoPrice == -1

\* Decimal.quantize(..., rounding=ROUND_HALF_UP): x / d to the nearest
\* integer, ties away from zero
RoundHalfUp(x, d) ==
    IF x >= 0 THEN (2 * x + d) \div (2 * d)
    ELSE 0 - ((2 * (0 - x) + d) \div (2 * d))

\* variant: int(price * 100), which truncates
to_cents_Truncated(price) == price \div 10

\* to_cents: price * 100 quantized to an integer
to_cents(price) == RoundHalfUp(price, 10)

\* _parse_optional_price: None for None or <= 0, else quantized to 0.01
ParseOptionalPrice(value) ==
    IF value = NoPrice \/ value <= 0 THEN NoPrice
    ELSE RoundHalfUp(value, 10) * 10

\* a value stored in a numeric(10,2) column
Numeric2(x) == RoundHalfUp(x, 10) * 10

\* what was entered for each product: tenant, price, discounted_price
ProductInputs ==
    1 :> [tenant_id |-> 1, price |-> 19990, discounted_price |-> NoPrice]
 @@ 2 :> [tenant_id |-> 2, price |-> 10000, discounted_price |-> NoPrice]
 @@ 3 :> [tenant_id |-> 1, price |-> 20000, discounted_price |-> 15995]
 @@ 4 :> [tenant_id |-> 3, price |-> 5000,  discounted_price |-> NoPrice]
 @@ 5 :> [tenant_id |-> 1, price |-> 20000, discounted_price |-> 15994]
 @@ 6 :> [tenant_id |-> 1, price |-> 494,   discounted_price |-> NoPrice]
 @@ 7 :> [tenant_id |-> 1, price |-> 495,   discounted_price |-> 0]
 @@ 8 :> [tenant_id |-> 1, price |-> 30000, discounted_price |-> 494]

\* the products row that create_product stores for an input
create_product(in) ==
    [tenant_id |-> in.tenant_id,
     price |-> Numeric2(in.price),
     discounted_price |-> ParseOptionalPrice(in.discounted_price),
     price_cents |-> to_cents(in.price)]

products == [p \in DOMAIN ProductInputs |-> create_product(ProductInputs[p])]

\* variant: the discount is not looked at
UnitAmount_BaseOnly(row) == row.price_cents

\* create_checkout_session: price_cents, overridden by discounted_price
\* quantized to 0.01 and multiplied by 100 when it is not None
UnitAmount(row) ==
    IF row.discounted_price # NoPrice
    THEN RoundHalfUp(row.discounted_price, 10)
    ELSE row.price_cents

\* product_courses rows, unique on (tenant_id, product_id, moodle_course_id)
product_courses ==
    { [tenant_id |-> 1, product_id |-> 1, moodle_course_id |-> 102],
      [tenant_id |-> 1, product_id |-> 1, moodle_course_id |-> 101],
      [tenant_id |-> 1, product_id |-> 1, moodle_course_id |-> 103],
      [tenant_id |-> 2, product_id |-> 2, moodle_course_id |-> 201],
      [tenant_id |-> 3, product_id |-> 4, moodle_course_id |-> 101] }

\* orders as inserted by checkout-session creation: status pending
InitOrders ==
    1 :> [tenant_id |-> 1, product_id |-> 1, buyer_email |-> "",
          stripe_session_id |-> "cs1", status |-> "pending",
          total_cents |-> UnitAmount(products[1])]
 @@ 2 :> [tenant_id |-> 2, product_id |-> 2, buyer_email |-> "",
          stripe_session_id |-> "cs2", status |-> "pending",
          total_cents |-> UnitAmount(products[2])]
 @@ 3 :> [tenant_id |-> 1, product_id |-> 3, buyer_email |-> "b@x",
          stripe_session_id |-> "cs3", status |-> "pending",
          total_cents |-> UnitAmount(products[3])]
 @@ 4 :> [tenant_id |-> 3, product_id |-> 4, buyer_email |-> "",
          stripe_session_id |-> "cs4", status |-> "pending",
          total_cents |-> UnitAmount(products[4])]

OrderIds == DOMAIN InitOrders
Emails == {"a@x", "b@x"}

\* ---------------------------------------------------------------------
\* Webhook requests
\* ---------------------------------------------------------------------
\* sig: "" = no stripe-signature header, "bad" = a signature no tenant
\*      secret verifies, otherwise the secret the body was signed with.
\* meta / cref: metadata.order_id / client_reference_id;
\*      0 = absent or empty, -1 = a non-numeric string, n = "n".
\* sid: data.object.id ("" = absent); ps: payment_status; email: buyer email
\* mtenant: metadata.tenant_id (0 = absent)
Ev(sig, type, meta, cref, sid, ps, email) ==
    [malformed |-> FALSE, sig |-> sig, type |-> type, meta |-> meta,
     cref |-> cref, sid |-> sid, ps |-> ps, email |-> email, mtenant |-> 0]

SecretOf(o) == tenants[InitOrders[o].tenant_id].stripe_webhook_secret
SidOf(o) == InitOrders[o].stripe_session_id

GoodCompleted(o) ==
    Ev(SecretOf(o), "checkout.session.completed", o, 0, SidOf(o), "paid", "a@x")

Events ==
    \* verified completed events and their one-field variations
    { GoodCompleted(o) : o \in {1, 2, 3} }
    \cup { [GoodCompleted(1) EXCEPT !.sid = s] : s \in {"cs3", ""} }
    \cup { [GoodCompleted(1) EXCEPT !.ps = "unpaid"] }
    \cup { [GoodCompleted(3) EXCEPT !.ps = ""] }
    \cup { [GoodCompleted(o) EXCEPT !.email = ""] : o \in {1, 3} }
    \cup { [GoodCompleted(3) EXCEPT !.meta = 0, !.cref = 3] }
    \* verified expired events
    \cup { Ev(SecretOf(o), "checkout.session.expired", o, 0, s, "", "") :
             o \in {1, 2, 3}, s \in {"cs1", "cs3", ""} }
    \cup { Ev("whsec2", "checkout.session.expired", 2, 0, "cs2", "", "") }
    \* an event type the router does not handle
    \cup { Ev("whsec1", "invoice.paid", 1, 0, "cs1", "paid", "a@x") }
    \* requests that do not verify
    \cup UNION { { [GoodCompleted(o) EXCEPT !.sig = s] :
                      s \in {"", "bad", "whsec1", "whsec2"} \ {SecretOf(o)} } :
                    o \in {1, 2} }
    \cup { Ev(s, "checkout.session.expired", 1, 0, "cs1", "", "") :
             s \in {"", "bad", "whsec2"} }
    \cup { [GoodCompleted(1) EXCEPT !.malformed = TRUE] }
    \* no usable order id, unknown order, tenant without webhook secret
    \cup { [GoodCompleted(1) EXCEPT !.meta = m, !.cref = c] :
             <<m, c>> \in {<<0, 0>>, <<-1, 1>>, <<9, 0>>} }
    \cup { Ev("whsec1", "checkout.session.completed", 4, 0, "cs4", "paid", "a@x") }
    \* metadata.tenant_id names another tenant than the order's
    \cup { [GoodCompleted(2) EXCEPT !.mtenant = 1],
           [GoodCompleted(2) EXCEPT !.mtenant = 1, !.sig = "whsec1"] }

NoEvent == Ev("", "", 0, 0, "", "", "")

\* ---------------------------------------------------------------------
\* State
\* ---------------------------------------------------------------------
VARIABLES
    orders,        \* orders table: id -> row
    enr,           \* order_enrollments table: set of rows
    userMap,       \* user_map table: <<tenant, email>> -> moodle user id (0 = no row)
    lmsUsers,      \* Moodle accounts of a tenant's site: <<tenant, email>> -> ids
    enrollCalls,   \* enrol_manual_enrol_users calls made: <<order, course>> -> count
    createCalls,   \* core_user_create_users calls made: <<tenant, email>> -> count
    run,           \* per handler: the request being processed and its locals
    lastSaga,      \* per order: the last finished request that ran the saga
    deliveries,    \* requests received so far
    faults,        \* failures injected so far
    budget,        \* failures the environment may inject in this behaviour
    tx,            \* the checkout request in progress and its open transaction
    orderSeq,      \* last value drawn from the orders id sequence
    sessions,      \* checkout sessions created at the payment processor
    checkouts,     \* checkout requests received so far
    catalog,       \* products table: id -> row
    productOps     \* product create and update requests received so far

vars == <<orders, enr, userMap, lmsUsers, enrollCalls, createCalls,
          run, lastSaga, deliveries, faults, budget,
          tx, orderSeq, sessions, checkouts, catalog, productOps>>

\* what the webhook pipeline never touches / what checkout never touches
pdvars == <<catalog, productOps>>
ckvars == <<tx, orderSeq, sessions, checkouts, pdvars>>
whvars == <<enr, userMap, lmsUsers, enrollCalls, createCalls, run, lastSaga,
            deliveries, faults>>

db == <<orders, enr, userMap>>
lms == <<lmsUsers, enrollCalls, createCalls>>

Courses == { r.moodle_course_id : r \in product_courses }
TenantIds == DOMAIN tenants

NoResult == [ok |-> FALSE, message |-> "", moodle_user_id |-> 0,
             created_user |-> FALSE, enrolled_courses |-> <<>>,
             skipped_courses |-> <<>>]
NoResp == [http |-> 0, ok |-> FALSE, message |-> ""]
NoRow == [tenant_id |-> 0, product_id |-> 0, buyer_email |-> "",
          stripe_session_id |-> "", status |-> "", total_cents |-> 0]

IdleRun ==
    [pc |-> "idle", ev |-> NoEvent, seqno |-> 0, oid |-> 0, row |-> NoRow,
     final_email |-> "", moodle_user_id |-> 0, created |-> FALSE,
     course_ids |-> <<>>, already_enrolled |-> {}, i |-> 0,
     enrolled |-> <<>>, skipped |-> <<>>, err |-> "",
     result |-> NoResult, resp |-> NoResp, trace |-> <<>>,
     pre |-> [enr |-> {}, userMap |-> <<>>, lmsUsers |-> <<>>]]

NoSaga == [seqno |-> 0, ev |-> NoEvent, result |-> NoResult, trace |-> <<>>]

\* no checkout request in progress
IdleTx ==
    [pc |-> "idle", tenant_id |-> 0, product_id |-> 0, customer_email |-> "",
     unit_amount |-> 0, order_id |-> 0, inserted |-> FALSE, row |-> NoRow,
     session_id |-> "", stripe |-> "", resp |-> NoResp, before |-> <<>>]

InitState ==
    /\ orders = InitOrders
    /\ enr = {}
    /\ userMap = [k \in TenantIds \X Emails |-> 0]
    /\ lmsUsers = [k \in TenantIds \X Emails |-> <<>>]
    /\ enrollCalls = [k \in OrderIds \X Courses |-> 0]
    /\ createCalls = [k \in TenantIds \X Emails |-> 0]
    /\ run = [h \in Handlers |-> IdleRun]
    /\ lastSaga = [o \in OrderIds |-> NoSaga]
    /\ deliveries = 0
    /\ faults = 0
    /\ tx = IdleTx
    /\ orderSeq = Cardinality(DOMAIN InitOrders)
    /\ sessions = { [id |-> InitOrders[o].stripe_session_id, order_id |-> o,
                     unit_amount |-> InitOrders[o].total_cents] : o \in DOMAIN InitOrders }
    /\ checkouts = 0
    /\ catalog = products
    /\ productOps = 0

Init == InitState /\ budget = MaxFaults

\* a behaviour of sequential deliveries may see one failure more
SeqInit == InitState /\ budget = MaxFaults + 1

\* ---------------------------------------------------------------------
\* Pure helpers
\* ---------------------------------------------------------------------
\* metadata.order_id wins when it is truthy; a non-numeric value yields
\* None (0) without falling back to client_reference_id.
ExtractOrderId(e) ==
    IF e.meta # 0
    THEN (IF e.meta > 0 THEN e.meta ELSE 0)
    ELSE IF e.cref # 0
         THEN (IF e.cref > 0 THEN e.cref ELSE 0)
         ELSE 0

\* variants: one list of secrets for all tenants; no verification at all
ConstructEventOk_AnyTenantSecret(e, secret) ==
    e.sig \in { tenants[t].stripe_webhook_secret : t \in DOMAIN tenants } \ {""}

ConstructEventOk_Unchecked(e, secret) == e.sig # ""

\* stripe.Webhook.construct_event: the HMAC of the raw body verifies only
\* against the secret the body was signed with.
ConstructEventOk(e, secret) == e.sig = secret

GetTenantStripe(t) ==
    IF t \in DOMAIN tenants THEN tenants[t].stripe_webhook_secret ELSE ""

\* variant: the tenant named in the payload is trusted when present
SecretTenant_FromPayload(e, row) ==
    IF e.mtenant # 0 THEN e.mtenant ELSE row.tenant_id

\* the tenant whose webhook secret verifies the request: tenant_id_db,
\* taken from the order row loaded in phase 1 (lines 1333-1337)
SecretTenant(e, row) == row.tenant_id

\* variant: the configuration is not looked at
GetTenantMoodleOk_Always(t) == TRUE

\* _get_tenant_moodle returns a pair only when both columns are set
GetTenantMoodleOk(t) ==
    /\ t \in DOMAIN tenants
    /\ tenants[t].moodle_url # ""
    /\ tenants[t].moodle_token # ""

RECURSIVE SortedSeq(_)
SortedSeq(S) ==
    IF S = {} THEN <<>>
    ELSE LET m == CHOOSE x \in S : \A y \in S : x <= y
         IN <<m>> \o SortedSeq(S \ {m})

RECURSIVE SortedSeqDesc(_)
SortedSeqDesc(S) ==
    IF S = {} THEN <<>>
    ELSE LET m == CHOOSE x \in S : \A y \in S : x >= y
         IN <<m>> \o SortedSeqDesc(S \ {m})

\* variant: order by moodle_course_id desc
GetProductCourseIds_Desc(t, p) ==
    SortedSeqDesc({ r.moodle_course_id :
                      r \in { x \in product_courses :
                                x.tenant_id = t /\ x.product_id = p } })

GetProductCourseIds(t, p) ==
    SortedSeq({ r.moodle_course_id :
                  r \in { x \in product_courses :
                            x.tenant_id = t /\ x.product_id = p } })

GetAlreadyEnrolledCourses(E, o) ==
    { r.moodle_course_id : r \in { x \in E : x.order_id = o /\ x.status = "enrolled" } }

\* variant: on conflict do nothing
UpsertOrderEnrollment_DoNothing(E, t, o, c, st, uid, err) ==
    IF \E r \in E : r.order_id = o /\ r.moodle_course_id = c
    THEN E
    ELSE E \cup { [id |-> Cardinality(E) + 1, tenant_id |-> t, order_id |-> o,
                   moodle_course_id |-> c, moodle_user_id |-> uid,
                   status |-> st, error |-> err] }

\* variant: plain insert, no conflict target
UpsertOrderEnrollment_AlwaysInsert(E, t, o, c, st, uid, err) ==
    E \cup { [id |-> Cardinality(E) + 1, tenant_id |-> t, order_id |-> o,
              moodle_course_id |-> c, moodle_user_id |-> uid,
              status |-> st, error |-> err] }

\* insert ... on conflict (order_id, moodle_course_id) do update
UpsertOrderEnrollment(E, t, o, c, st, uid, err) ==
    IF \E r \in E : r.order_id = o /\ r.moodle_course_id = c
    THEN { IF r.order_id = o /\ r.moodle_course_id = c
           THEN [r EXCEPT !.tenant_id = t,
                          !.moodle_user_id = IF uid # 0 THEN uid ELSE @,
                          !.status = st,
                          !.error = err]
           ELSE r : r \in E }
    ELSE E \cup { [id |-> Cardinality(E) + 1, tenant_id |-> t, order_id |-> o,
                   moodle_course_id |-> c, moodle_user_id |-> uid,
                   status |-> st, error |-> err] }

\* variant: status = 'paid' unconditionally
SetOrderPaidIfNeeded_Always(O, o, email) ==
    [O EXCEPT ![o].status = "paid",
              ![o].buyer_email = IF @ = "" /\ email # "" THEN email ELSE @]

\* update orders set status = case when status = 'fulfilled' then status
\* else 'paid' end, buyer_email = case when empty and :email given ...
SetOrderPaidIfNeeded(O, o, email) ==
    [O EXCEPT ![o].status = IF @ = "fulfilled" THEN @ ELSE "paid",
              ![o].buyer_email = IF @ = "" /\ email # "" THEN email ELSE @]

SetOrderStatus(O, o, st) == [O EXCEPT ![o].status = st]

\* variants: no status guard; guard that forgets 'paid'
MarkOrderExpired_NoGuard(O, t, sid) ==
    [o \in DOMAIN O |->
        IF O[o].tenant_id = t /\ O[o].stripe_session_id = sid
        THEN [O[o] EXCEPT !.status = "expired"]
        ELSE O[o]]

MarkOrderExpired_PaidUnguarded(O, t, sid) ==
    [o \in DOMAIN O |->
        IF /\ O[o].tenant_id = t
           /\ O[o].stripe_session_id = sid
           /\ O[o].status \notin {"expired", "fulfilled"}
        THEN [O[o] EXCEPT !.status = "expired"]
        ELSE O[o]]

\* update orders set status = 'expired' where tenant_id = :t and
\* stripe_session_id = :sid and status not in ('paid','expired','fulfilled')
MarkOrderExpired(O, t, sid) ==
    [o \in DOMAIN O |->
        IF /\ O[o].tenant_id = t
           /\ O[o].stripe_session_id = sid
           /\ O[o].status \notin {"paid", "expired", "fulfilled"}
        THEN [O[o] EXCEPT !.status = "expired"]
        ELSE O[o]]

\* index of the first course at or after position i that is not in the
\* already-enrolled set (Len + 1 when the loop is exhausted)
\* variant: the loop never skips a course
NextPending_NoSkip(cs, already, i) == i

\* variant: the skip test is inverted
RECURSIVE NextPending_Inverted(_, _, _)
NextPending_Inverted(cs, already, i) ==
    IF i > Len(cs) THEN i
    ELSE IF cs[i] \notin already THEN NextPending_Inverted(cs, already, i + 1)
    ELSE i

RECURSIVE NextPending(_, _, _)
NextPending(cs, already, i) ==
    IF i > Len(cs) THEN i
    ELSE IF cs[i] \in already THEN NextPending(cs, already, i + 1)
    ELSE i

\* the courses the loop passes over between positions i (inclusive) and j
SkippedBetween(cs, i, j) == SubSeq(cs, i, j - 1)

Resp(ok, msg) == [http |-> 200, ok |-> ok, message |-> msg]

\* ---------------------------------------------------------------------
\* stripe_webhook: receipt, phase 1 (unverified lookup), phase 2
\* (signature verification) and routing.  Everything up to the first
\* write is computed from the request and one read of the order row.
\* ---------------------------------------------------------------------
Decision(next, resp, email) ==
    [next |-> next, resp |-> resp, final_email |-> email]

Answer(ok, msg) == Decision("done", Resp(ok, msg), "")

\* variants: no replay check; no payment_status check
RouteCompleted_NoReplayCheck(e, oid, row) ==
    IF e.sid = "" THEN Answer(TRUE, "")
    ELSE IF ExtractOrderId(e) = 0 \/ ExtractOrderId(e) # oid
         THEN Answer(TRUE, "Order mismatch")
    ELSE IF row.stripe_session_id # "" /\ row.stripe_session_id # e.sid
         THEN Answer(TRUE, "Session mismatch")
    ELSE IF e.ps # "" /\ e.ps # "paid"
         THEN Answer(TRUE, "Payment not paid")
    ELSE LET final_email == IF e.email # "" THEN e.email ELSE row.buyer_email
         IN IF final_email = ""
            THEN Answer(TRUE, "Missing buyer email; cannot enroll")
            ELSE IF row.product_id = 0
            THEN Answer(TRUE, "Order missing product_id; cannot enroll")
            ELSE Decision("markpaid", NoResp, final_email)

RouteCompleted_NoPaymentCheck(e, oid, row) ==
    IF e.sid = "" THEN Answer(TRUE, "")
    ELSE IF ExtractOrderId(e) = 0 \/ ExtractOrderId(e) # oid
         THEN Answer(TRUE, "Order mismatch")
    ELSE IF row.stripe_session_id # "" /\ row.stripe_session_id # e.sid
         THEN Answer(TRUE, "Session mismatch")
    ELSE LET final_email == IF e.email # "" THEN e.email ELSE row.buyer_email
         IN IF final_email = ""
            THEN Answer(TRUE, "Missing buyer email; cannot enroll")
            ELSE IF row.product_id = 0
            THEN Answer(TRUE, "Order missing product_id; cannot enroll")
            ELSE IF row.status = "fulfilled"
            THEN Answer(TRUE, "Already fulfilled")
            ELSE Decision("markpaid", NoResp, final_email)

RouteCompleted(e, oid, row) ==
    IF e.sid = "" THEN Answer(TRUE, "")
    ELSE IF ExtractOrderId(e) = 0 \/ ExtractOrderId(e) # oid
         THEN Answer(TRUE, "Order mismatch")
    ELSE IF row.stripe_session_id # "" /\ row.stripe_session_id # e.sid
         THEN Answer(TRUE, "Session mismatch")
    ELSE IF e.ps # "" /\ e.ps # "paid"
         THEN Answer(TRUE, "Payment not paid")
    ELSE LET final_email == IF e.email # "" THEN e.email ELSE row.buyer_email
         IN IF final_email = ""
            THEN Answer(TRUE, "Missing buyer email; cannot enroll")
            ELSE IF row.product_id = 0
            THEN Answer(TRUE, "Order missing product_id; cannot enroll")
            ELSE IF row.status = "fulfilled"
            THEN Answer(TRUE, "Already fulfilled")
            ELSE Decision("markpaid", NoResp, final_email)

RouteExpired(e, oid) ==
    IF e.sid # "" THEN Decision("expire", NoResp, "")
    ELSE Answer(TRUE, "")

Decide(O, e) ==
    IF e.sig = "" THEN Answer(FALSE, "Missing Stripe-Signature header")
    ELSE IF e.malformed THEN Answer(FALSE, "Invalid JSON payload")
    ELSE LET order_id_guess == ExtractOrderId(e) IN
         IF order_id_guess = 0
         THEN Answer(TRUE, "Missing order_id in Stripe event")
         ELSE IF order_id_guess \notin DOMAIN O
         THEN Answer(TRUE, "Order not found")
         ELSE LET row == O[order_id_guess]
                  webhook_secret == GetTenantStripe(SecretTenant(e, row))
              IN IF webhook_secret = ""
                 THEN Answer(TRUE, "Tenant Stripe webhook not configured")
                 ELSE IF ~ConstructEventOk(e, webhook_secret)
                 THEN Answer(FALSE, "Invalid Stripe signature")
                 ELSE IF e.type = "checkout.session.completed"
                 THEN RouteCompleted(e, order_id_guess, row)
                 ELSE IF e.type = "checkout.session.expired"
                 THEN RouteExpired(e, order_id_guess)
                 ELSE Answer(TRUE, "")

\* the order row read in phase 1 (line 1328), if the request gets that far
LoadedOrderId(O, e) ==
    IF e.sig # "" /\ ~e.malformed /\ ExtractOrderId(e) \in DOMAIN O
    THEN ExtractOrderId(e)
    ELSE 0

Receive(h, e, max) ==
    /\ run[h].pc = "idle"
    /\ \A g \in Handlers : g < h => run[g].pc # "idle"
    /\ deliveries < max
    /\ LET d == Decide(orders, e)
           oid == LoadedOrderId(orders, e)
       IN run' = [run EXCEPT ![h] =
              [IdleRun EXCEPT
                  !.pc = d.next,
                  !.ev = e,
                  !.seqno = deliveries + 1,
                  !.oid = oid,
                  !.row = IF oid # 0 THEN orders[oid] ELSE NoRow,
                  !.final_email = d.final_email,
                  !.resp = d.resp,
                  !.pre = [enr |-> enr, userMap |-> userMap, lmsUsers |-> lmsUsers]]]
    /\ deliveries' = deliveries + 1
    /\ UNCHANGED <<orders, enr, userMap, lmsUsers, enrollCalls, createCalls,
                   lastSaga, faults>>
    /\ UNCHANGED <<budget, ckvars>>

stripe_webhook(h, max) == \E e \in Events : Receive(h, e, max)

\* ---------------------------------------------------------------------
\* Steps of a request after routing
\* ---------------------------------------------------------------------
Log(h, op, arg, res) == Append(run[h].trace, [op |-> op, arg |-> arg, res |-> res])

\* an injected failure is drawn from the fault budget
Outcomes(bad) == {"ok"} \cup (IF faults < budget THEN bad ELSE {})
Charge(out) == faults' = IF out = "ok" THEN faults ELSE faults + 1

\* the saga returned: stripe_webhook answers 200 with the result attached
Finish(h, r, tr) ==
    [run[h] EXCEPT !.pc = "done", !.result = r, !.trace = tr,
                   !.resp = Resp(TRUE, "fulfillment")]

SagaResult(h, ok, msg) ==
    [ok |-> ok, message |-> msg, moodle_user_id |-> run[h].moodle_user_id,
     created_user |-> run[h].created, enrolled_courses |-> run[h].enrolled,
     skipped_courses |-> run[h].skipped]

\* _set_order_paid_if_needed + commit (lines 1413-1420)
MarkPaid(h) ==
    /\ run[h].pc = "markpaid"
    /\ \E out \in Outcomes({"dberr"}) :
        /\ Charge(out)
        /\ IF out = "ok"
           THEN /\ orders' = SetOrderPaidIfNeeded(orders, run[h].oid, run[h].final_email)
                /\ run' = [run EXCEPT ![h].pc = "find",
                                      ![h].trace = Log(h, "paid", run[h].oid, orders[run[h].oid].status)]
           ELSE /\ orders' = orders
                /\ run' = [run EXCEPT ![h].pc = "done",
                                      ![h].trace = Log(h, "paid", run[h].oid, "dberr"),
                                      ![h].resp = Resp(FALSE, "Failed to mark order paid")]
    /\ UNCHANGED <<enr, userMap, lmsUsers, enrollCalls, createCalls, lastSaga, deliveries>>
    /\ UNCHANGED <<budget, ckvars>>

\* _mark_order_expired (lines 1446-1452)
Expire(h) ==
    /\ run[h].pc = "expire"
    /\ \E out \in Outcomes({"dberr"}) :
        /\ Charge(out)
        /\ orders' = IF out = "ok"
                     THEN MarkOrderExpired(orders, run[h].row.tenant_id, run[h].ev.sid)
                     ELSE orders
        /\ run' = [run EXCEPT ![h].pc = "done",
                              ![h].trace = Log(h, "expired", run[h].oid,
                                               IF out = "ok" THEN orders[run[h].oid].status ELSE out),
                              ![h].resp = Resp(TRUE, "")]
    /\ UNCHANGED <<enr, userMap, lmsUsers, enrollCalls, createCalls, lastSaga, deliveries>>
    /\ UNCHANGED <<budget, ckvars>>

\* ---------------------------------------------------------------------
\* _ensure_user_and_enroll: the fulfillment saga
\* ---------------------------------------------------------------------
RECURSIVE SiteUserCount(_, _, _)
SiteUserCount(U, t, es) ==
    IF es = {} THEN 0
    ELSE LET e == CHOOSE x \in es : TRUE
         IN Len(U[<<t, e>>]) + SiteUserCount(U, t, es \ {e})

\* variant: the lookup by email never returns a user
FindUser_NeverFinds(h) ==
    /\ run[h].pc = "find"
    /\ run' = [run EXCEPT ![h].pc = "create",
                          ![h].moodle_user_id = 0,
                          ![h].trace = Log(h, "find", 0, "ok")]
    /\ UNCHANGED <<orders, enr, userMap, lmsUsers, enrollCalls, createCalls,
                   lastSaga, deliveries, faults>>
    /\ UNCHANGED <<budget, ckvars>>

\* _get_tenant_moodle, then _find_moodle_user_id (lines 1157-1170)
FindUser(h) ==
    /\ run[h].pc = "find"
    /\ LET t == run[h].row.tenant_id
           k == <<t, run[h].final_email>>
       IN IF ~GetTenantMoodleOk(t)
          THEN /\ run' = [run EXCEPT ![h] =
                    Finish(h, SagaResult(h, FALSE, "Tenant Moodle not configured"),
                           run[h].trace)]
               /\ faults' = faults
          ELSE \E out \in Outcomes({"err"}) :
               /\ Charge(out)
               /\ IF out = "ok"
                  THEN LET uid == IF lmsUsers[k] = <<>> THEN 0 ELSE lmsUsers[k][1]
                       IN run' = [run EXCEPT
                              ![h].pc = IF uid = 0 THEN "create" ELSE "usermap",
                              ![h].moodle_user_id = uid,
                              ![h].trace = Log(h, "find", uid, "ok")]
                  ELSE run' = [run EXCEPT ![h] =
                          Finish(h, SagaResult(h, FALSE, "Find user failed"),
                                 Log(h, "find", 0, "err"))]
    /\ UNCHANGED <<orders, enr, userMap, lmsUsers, enrollCalls, createCalls,
                   lastSaga, deliveries>>
    /\ UNCHANGED <<budget, ckvars>>

\* _create_moodle_user (lines 1172-1179).  Moodle may refuse a second
\* account for an email that already has one ("dup") or accept it.
CreateUser(h) ==
    /\ run[h].pc = "create"
    /\ LET t == run[h].row.tenant_id
           k == <<t, run[h].final_email>>
           outs == Outcomes({"err"}) \cup (IF lmsUsers[k] # <<>> THEN {"dup"} ELSE {})
       IN \E out \in outs :
          /\ faults' = IF out = "err" THEN faults + 1 ELSE faults
          /\ createCalls' = [createCalls EXCEPT ![k] = @ + 1]
          /\ IF out = "ok"
             THEN LET uid == SiteUserCount(lmsUsers, t, Emails) + 1
                  IN /\ lmsUsers' = [lmsUsers EXCEPT ![k] = Append(@, uid)]
                     /\ run' = [run EXCEPT ![h].pc = "usermap",
                                           ![h].moodle_user_id = uid,
                                           ![h].created = TRUE,
                                           ![h].trace = Log(h, "create", uid, "ok")]
             ELSE /\ lmsUsers' = lmsUsers
                  /\ run' = [run EXCEPT ![h] =
                        Finish(h, SagaResult(h, FALSE, "Create user failed"),
                               Log(h, "create", 0, out))]
    /\ UNCHANGED <<orders, enr, userMap, enrollCalls, lastSaga, deliveries>>
    /\ UNCHANGED <<budget, ckvars>>

\* _upsert_user_map; a failure is logged and ignored (lines 1181-1184)
UpsertUserMap(h) ==
    /\ run[h].pc = "usermap"
    /\ LET k == <<run[h].row.tenant_id, run[h].final_email>>
       IN \E out \in Outcomes({"dberr"}) :
          /\ Charge(out)
          /\ userMap' = IF out = "ok"
                        THEN [userMap EXCEPT ![k] = run[h].moodle_user_id]
                        ELSE userMap
          /\ run' = [run EXCEPT ![h].pc = "courses",
                                ![h].trace = Log(h, "usermap", run[h].moodle_user_id, out)]
    /\ UNCHANGED <<orders, enr, lmsUsers, enrollCalls, createCalls, lastSaga, deliveries>>
    /\ UNCHANGED <<budget, ckvars>>

\* course set, already-enrolled set and entry into the loop (lines 1186-1209)
LoadCourses(h) ==
    /\ run[h].pc = "courses"
    /\ LET cs == GetProductCourseIds(run[h].row.tenant_id, run[h].row.product_id)
           already == GetAlreadyEnrolledCourses(enr, run[h].oid)
           j == NextPending(cs, already, 1)
           loc == [run[h] EXCEPT !.course_ids = cs, !.already_enrolled = already,
                                 !.i = j, !.skipped = SkippedBetween(cs, 1, j)]
       IN run' = [run EXCEPT ![h] =
              IF cs = <<>>
              THEN Finish(h, SagaResult(h, FALSE,
                              "No Moodle courses linked to product in product_courses"),
                          run[h].trace)
              ELSE IF j > Len(cs)
              THEN [loc EXCEPT !.pc = "fulfill",
                               !.result = [SagaResult(h, TRUE, "") EXCEPT
                                              !.skipped_courses = loc.skipped]]
              ELSE [loc EXCEPT !.pc = "attempt"]]
    /\ UNCHANGED <<orders, enr, userMap, lmsUsers, enrollCalls, createCalls,
                   lastSaga, deliveries, faults>>
    /\ UNCHANGED <<budget, ckvars>>

\* checkpoint row 'attempt' before the call (lines 1211-1219); the helper
\* swallows a failed write (lines 969-972)
Attempt(h) ==
    /\ run[h].pc = "attempt"
    /\ LET cid == run[h].course_ids[run[h].i]
       IN \E out \in Outcomes({"dberr"}) :
          /\ Charge(out)
          /\ enr' = IF out = "ok"
                    THEN UpsertOrderEnrollment(enr, run[h].row.tenant_id, run[h].oid,
                                               cid, "attempt", run[h].moodle_user_id, "")
                    ELSE enr
          /\ run' = [run EXCEPT ![h].pc = "enroll",
                                ![h].trace = Log(h, "attempt", cid, out)]
    /\ UNCHANGED <<orders, userMap, lmsUsers, enrollCalls, createCalls, lastSaga, deliveries>>
    /\ UNCHANGED <<budget, ckvars>>

\* _enroll_user_in_course (line 1222): success, MoodleError or another exception
Enroll(h) ==
    /\ run[h].pc = "enroll"
    /\ LET cid == run[h].course_ids[run[h].i]
       IN \E out \in Outcomes({"MoodleError", "Exception"}) :
          /\ Charge(out)
          /\ enrollCalls' = [enrollCalls EXCEPT ![<<run[h].oid, cid>>] = @ + 1]
          /\ run' = [run EXCEPT ![h].pc = "record",
                                ![h].err = IF out = "ok" THEN "" ELSE out,
                                ![h].trace = Log(h, "enroll", cid, out)]
    /\ UNCHANGED <<orders, enr, userMap, lmsUsers, createCalls, lastSaga, deliveries>>
    /\ UNCHANGED <<budget, ckvars>>

\* checkpoint row 'enrolled' and next course (lines 1224-1235), or
\* checkpoint row 'failed' and return (lines 1237-1287)
Record(h) ==
    /\ run[h].pc = "record"
    /\ LET cid == run[h].course_ids[run[h].i]
           cs == run[h].course_ids
           st == IF run[h].err = "" THEN "enrolled" ELSE "failed"
       IN \E out \in Outcomes({"dberr"}) :
          /\ Charge(out)
          /\ enr' = IF out = "ok"
                    THEN UpsertOrderEnrollment(enr, run[h].row.tenant_id, run[h].oid,
                                               cid, st, run[h].moodle_user_id, run[h].err)
                    ELSE enr
          /\ IF run[h].err = ""
             THEN LET j == NextPending(cs, run[h].already_enrolled, run[h].i + 1)
                      loc == [run[h] EXCEPT
                                 !.enrolled = Append(@, cid),
                                 !.skipped = @ \o SkippedBetween(cs, run[h].i + 1, j),
                                 !.i = j,
                                 !.trace = Log(h, "enrolled", cid, out)]
                  IN run' = [run EXCEPT ![h] =
                         IF j > Len(cs)
                         THEN [loc EXCEPT !.pc = "fulfill",
                                          !.result = [SagaResult(h, TRUE, "") EXCEPT
                                                         !.enrolled_courses = loc.enrolled,
                                                         !.skipped_courses = loc.skipped]]
                         ELSE [loc EXCEPT !.pc = "attempt"]]
             ELSE run' = [run EXCEPT ![h] =
                      Finish(h, SagaResult(h, FALSE, run[h].err),
                             Log(h, "failed", cid, out))]
    /\ UNCHANGED <<orders, userMap, lmsUsers, enrollCalls, createCalls, lastSaga, deliveries>>
    /\ UNCHANGED <<budget, ckvars>>

\* result ok: _set_order_status 'fulfilled' + commit; a failure is logged
\* and ignored (lines 1432-1441)
Fulfill(h) ==
    /\ run[h].pc = "fulfill"
    /\ \E out \in Outcomes({"dberr"}) :
        /\ Charge(out)
        /\ orders' = IF out = "ok"
                     THEN SetOrderStatus(orders, run[h].oid, "fulfilled")
                     ELSE orders
        /\ run' = [run EXCEPT ![h] =
               Finish(h, run[h].result, Log(h, "fulfilled", run[h].oid, out))]
    /\ UNCHANGED <<enr, userMap, lmsUsers, enrollCalls, createCalls, lastSaga, deliveries>>
    /\ UNCHANGED <<budget, ckvars>>

\* the response is returned and the request-scoped session is closed
RanSaga(r) == r.resp.message = "fulfillment"

Close(h) ==
    /\ run[h].pc = "done"
    /\ lastSaga' = IF RanSaga(run[h])
                   THEN [lastSaga EXCEPT ![run[h].oid] =
                            [seqno |-> run[h].seqno, ev |-> run[h].ev,
                             result |-> run[h].result, trace |-> run[h].trace]]
                   ELSE lastSaga
    /\ run' = [run EXCEPT ![h] = IdleRun]
    /\ UNCHANGED <<orders, enr, userMap, lmsUsers, enrollCalls, createCalls,
                   deliveries, faults>>
    /\ UNCHANGED <<budget, ckvars>>

\* ---------------------------------------------------------------------
\* create_checkout_session (stripe_checkout.py).  The request runs in one
\* database transaction: the insert is visible to others only after the
\* commit that follows the payment processor's answer.
\* ---------------------------------------------------------------------
\* product_id values a request may carry: 0 = missing, 9 = no such product
RequestedProducts == {0, 1, 3, 5, 6, 7, 8, 9}

\* variant: the order is committed right after the insert
Rollback_KeepsInsert(O, oid, row) == O @@ (oid :> row)

\* db.rollback(): the uncommitted insert is discarded
Rollback(O, oid, row) == O

\* validations up to the price check; everything is read, nothing written
PrepareCheckout(t, pid) ==
    IF pid = 0 THEN Answer(FALSE, "Missing product_id")
    ELSE IF tenants[t].stripe_secret_key = ""
    THEN Answer(FALSE, "Stripe not configured for this tenant")
    ELSE IF tenants[t].host = ""
    THEN Answer(FALSE, "Tenant host not configured")
    ELSE IF ~(pid \in DOMAIN catalog /\ catalog[pid].tenant_id = t)
    THEN Answer(FALSE, "Product not found")
    ELSE IF UnitAmount(catalog[pid]) < 50
    THEN Answer(FALSE, "Invalid price")
    ELSE Decision("insert", NoResp, "")

create_checkout_session ==
    /\ tx.pc = "idle"
    /\ checkouts < MaxCheckouts
    /\ \E t \in TenantIds, pid \in RequestedProducts, email \in {"", "a@x"} :
         LET d == PrepareCheckout(t, pid)
         IN tx' = [IdleTx EXCEPT
                      !.pc = d.next,
                      !.tenant_id = t,
                      !.product_id = pid,
                      !.customer_email = email,
                      !.unit_amount = IF d.next = "insert"
                                      THEN UnitAmount(catalog[pid]) ELSE 0,
                      !.resp = d.resp,
                      !.before = orders]
    /\ checkouts' = checkouts + 1
    /\ UNCHANGED <<orders, orderSeq, sessions, budget, whvars, pdvars>>

\* insert into orders ... 'pending' ... returning id (lines 425-441)
InsertOrder ==
    /\ tx.pc = "insert"
    /\ \E out \in {"ok", "dberr"} :
         IF out = "ok"
         THEN /\ orderSeq' = orderSeq + 1
              /\ tx' = [tx EXCEPT
                           !.pc = "stripe",
                           !.order_id = orderSeq + 1,
                           !.inserted = TRUE,
                           !.row = [tenant_id |-> tx.tenant_id,
                                    product_id |-> tx.product_id,
                                    buyer_email |-> tx.customer_email,
                                    stripe_session_id |-> "",
                                    status |-> "pending",
                                    total_cents |-> tx.unit_amount]]
         ELSE /\ orderSeq' = orderSeq
              /\ tx' = [tx EXCEPT !.pc = "done",
                                  !.resp = Resp(FALSE, "OperationalError")]
    /\ UNCHANGED <<orders, sessions, checkouts, budget, whvars, pdvars>>

\* stripe.checkout.Session.create (line 482); on an exception the handler
\* rolls back and returns the error (lines 508-514)
CreateSession ==
    /\ tx.pc = "stripe"
    /\ \E out \in {"ok", "err"} :
         IF out = "ok"
         THEN LET sid == "cs" \o ToString(tx.order_id)
              IN /\ sessions' = sessions \cup
                        { [id |-> sid, order_id |-> tx.order_id,
                           unit_amount |-> tx.unit_amount] }
                 /\ tx' = [tx EXCEPT !.pc = "persist", !.session_id = sid,
                                     !.stripe = "ok"]
                 /\ orders' = orders
         ELSE /\ sessions' = sessions
              /\ orders' = Rollback(orders, tx.order_id, tx.row)
              /\ tx' = [tx EXCEPT !.pc = "done", !.stripe = "err",
                                  !.inserted = FALSE,
                                  !.resp = Resp(FALSE, "StripeError")]
    /\ UNCHANGED <<orderSeq, checkouts, budget, whvars, pdvars>>

\* update orders set stripe_session_id, then commit (lines 485-506)
PersistSession ==
    /\ tx.pc = "persist"
    /\ \E out \in {"ok", "dberr"} :
         IF out = "ok"
         THEN /\ orders' = orders @@
                    (tx.order_id :> [tx.row EXCEPT !.stripe_session_id = tx.session_id])
              /\ tx' = [tx EXCEPT !.pc = "done", !.resp = Resp(TRUE, "")]
         ELSE /\ orders' = Rollback(orders, tx.order_id, tx.row)
              /\ tx' = [tx EXCEPT !.pc = "done", !.inserted = FALSE,
                                  !.resp = Resp(FALSE, "OperationalError")]
    /\ UNCHANGED <<orderSeq, sessions, checkouts, budget, whvars, pdvars>>

\* the response is returned; get_db commits an empty transaction
CloseCheckout ==
    /\ tx.pc = "done"
    /\ tx' = IdleTx
    /\ UNCHANGED <<orders, orderSeq, sessions, checkouts, budget, whvars, pdvars>>

\* ---------------------------------------------------------------------
\* create_product and update_product (products.py): the price rules at
\* product-write time.  Each request is one transaction.
\* ---------------------------------------------------------------------
\* form fields of a create request (NoPrice = field absent or blank)
CreateInputs ==
    { [tenant_id |-> 1, price |-> 20000, discounted_price |-> 15000],
      [tenant_id |-> 1, price |-> 20000, discounted_price |-> 20000],
      [tenant_id |-> 1, price |-> 10000, discounted_price |-> NoPrice],
      [tenant_id |-> 1, price |-> 10000, discounted_price |-> 9996],
      [tenant_id |-> 1, price |-> 10004, discounted_price |-> 10000],
      [tenant_id |-> 2, price |-> 0,     discounted_price |-> NoPrice] }

\* payload of an update request: price (NoPrice = not sent), whether
\* discounted_price is among the fields sent, and its value (NoPrice = null).
\* The payload type admits two decimal places only.
UpdatePayloads ==
    { [price |-> pr, has_discount |-> hd, discounted_price |-> d] :
        pr \in {NoPrice, 0, 10000, 20000},
        hd \in BOOLEAN,
        d \in {NoPrice, 10000, 15000} }
    \ { [price |-> pr, has_discount |-> FALSE, discounted_price |-> d] :
          pr \in {NoPrice, 0, 10000, 20000}, d \in {10000, 15000} }

\* create_product: price must be > 0 and a discount must be below the
\* price as entered (lines 1382-1392)
CreateAccepted(in) ==
    /\ in.price > 0
    /\ LET discounted_dec == ParseOptionalPrice(in.discounted_price)
       IN ~(discounted_dec # NoPrice /\ discounted_dec >= in.price)

\* update_product: the checks that end in HTTP 400 (lines 1788-1822)
UpdateAccepted(row, pl) ==
    /\ pl.price # NoPrice \/ pl.has_discount
    /\ pl.price # NoPrice => pl.price > 0
    /\ pl.has_discount =>
          LET discounted == ParseOptionalPrice(pl.discounted_price)
              base_price == IF pl.price # NoPrice THEN pl.price ELSE row.price
          IN ~(discounted # NoPrice /\ discounted >= base_price)

\* update products set ... : only the fields sent are written
UpdatedRow(row, pl) ==
    [row EXCEPT
        !.price = IF pl.price # NoPrice THEN Numeric2(pl.price) ELSE @,
        !.price_cents = IF pl.price # NoPrice THEN to_cents(pl.price) ELSE @,
        !.discounted_price = IF pl.has_discount
                             THEN ParseOptionalPrice(pl.discounted_price)
                             ELSE @]

CreateProduct ==
    /\ productOps < MaxProductOps
    /\ productOps' = productOps + 1
    /\ \E in \in CreateInputs :
         catalog' = IF CreateAccepted(in)
                    THEN catalog @@ ((Cardinality(DOMAIN catalog) + 1) :> create_product(in))
                    ELSE catalog
    /\ UNCHANGED <<orders, budget, whvars, tx, orderSeq, sessions, checkouts>>

update_product ==
    /\ productOps < MaxProductOps
    /\ productOps' = productOps + 1
    /\ \E t \in TenantIds, pid \in DOMAIN catalog, pl \in UpdatePayloads :
         catalog' = IF catalog[pid].tenant_id = t /\ UpdateAccepted(catalog[pid], pl)
                    THEN [catalog EXCEPT ![pid] = UpdatedRow(@, pl)]
                    ELSE catalog
    /\ UNCHANGED <<orders, budget, whvars, tx, orderSeq, sessions, checkouts>>

\* ---------------------------------------------------------------------
\* Specifications
\* ---------------------------------------------------------------------
HNext(h, max) ==
    \/ stripe_webhook(h, max)
    \/ MarkPaid(h)
    \/ Expire(h)
    \/ FindUser(h)
    \/ CreateUser(h)
    \/ UpsertUserMap(h)
    \/ LoadCourses(h)
    \/ Attempt(h)
    \/ Enroll(h)
    \/ Record(h)
    \/ Fulfill(h)
    \/ Close(h)

\* requests may overlap
Next == \E h \in Handlers : HNext(h, MaxDeliveries)
Spec == Init /\ [][Next]_vars

\* one request at a time: a delivery starts after the previous one returned
\* (handler 2 is used only while handler 1 is busy)
SeqNext == HNext(1, MaxDeliveries)
SeqSpec == SeqInit /\ [][SeqNext]_vars

\* checkout requests, one at a time
CheckoutNext ==
    \/ create_checkout_session
    \/ InsertOrder
    \/ CreateSession
    \/ PersistSession
    \/ CloseCheckout
CheckoutSpec == Init /\ [][CheckoutNext]_vars

\* product create and update requests, one at a time
ProductNext ==
    \/ CreateProduct
    \/ update_product
ProductSpec == Init /\ [][ProductNext]_vars

\* ---------------------------------------------------------------------
\* Vocabulary of the properties
\* ---------------------------------------------------------------------
Stepped(h) == run'[h] # run[h]
Started(h) == run[h].pc = "idle" /\ run'[h].pc # "idle"

TenantOfOrder(o) == InitOrders[o].tenant_id
WebhookSecret(t) == tenants[t].stripe_webhook_secret

\* a checkout-completed event for order o signed with o's tenant's secret
VerifiedCompleted(e, o) ==
    /\ ~e.malformed
    /\ e.type = "checkout.session.completed"
    /\ (e.meta = o \/ (e.meta = 0 /\ e.cref = o))
    /\ e.sig # ""
    /\ e.sig = WebhookSecret(TenantOfOrder(o))

\* ... that also names o's session and does not report a non-paid status
AcceptableCompleted(e, o) ==
    /\ VerifiedCompleted(e, o)
    /\ e.sid # ""
    /\ e.sid = InitOrders[o].stripe_session_id
    /\ e.ps \in {"", "paid"}

\* rows of the checkpoint log
RowsOf(E, o, c) == { r \in E : r.order_id = o /\ r.moodle_course_id = c }
HasRow(E, o, c, st) == \E r \in RowsOf(E, o, c) : r.status = st
RecordedEnrolled(E, o) == { c \in Courses : HasRow(E, o, c, "enrolled") }

\* what a request did, read off its trace
RECURSIVE Pick(_, _)
Pick(tr, ops) ==
    IF tr = <<>> THEN <<>>
    ELSE (IF Head(tr).op \in ops THEN <<Head(tr)>> ELSE <<>>) \o Pick(Tail(tr), ops)

LmsCalls(tr) == Pick(tr, {"find", "create", "enroll"})
EnrollCallsOf(tr) == Pick(tr, {"enroll"})
CallsFor(tr, c) == Len(SelectSeq(EnrollCallsOf(tr), LAMBDA x : x.arg = c))
NoLmsFailure(tr) == \A k \in 1..Len(tr) :
    tr[k].op \in {"find", "create", "enroll"} => tr[k].res = "ok"
NoWriteFailure(tr) == \A k \in 1..Len(tr) : tr[k].res # "dberr"

\* ---------------------------------------------------------------------
\* Properties
\* ---------------------------------------------------------------------

\* the second of two back-to-back deliveries of one verified completed
\* event for order o, the first of which ran the saga
SecondDelivery(r, o) ==
    /\ r.pc # "idle"
    /\ r.oid = o
    /\ VerifiedCompleted(r.ev, o)
    /\ lastSaga[o].seqno # 0
    /\ lastSaga[o].seqno + 1 = r.seqno
    /\ lastSaga[o].ev = r.ev

\* C1 as stated: for every order, delivering the same verified completed
\* event twice in a row ends in the state the first delivery left, and
\* enroll is called at most once per (order, course) over both deliveries.
C1_SameStateAndOneEnrollCall ==
    \A o \in OrderIds :
        (SecondDelivery(run[1], o) /\ run[1].pc = "done") =>
            /\ orders[o] = run[1].row
            /\ enr = run[1].pre.enr
            /\ userMap = run[1].pre.userMap
            /\ \A c \in Courses :
                 CallsFor(lastSaga[o].trace, c) + CallsFor(run[1].trace, c) <= 1

\* C1 (amended): when the first delivery left the order fulfilled, the
\* second back-to-back delivery of the same event is a no-op: order,
\* EnrollmentAttempt, UserMap and LMS state stay as the first delivery left
\* them, the second delivery makes no LMS call and no write, and enroll was
\* called at most once per (order, course) over both deliveries.
C1_ReplayAfterFulfilledIsNoop ==
    \A o \in OrderIds :
        (SecondDelivery(run[1], o) /\ run[1].row.status = "fulfilled") =>
            /\ run[1].pc = "done"
            /\ run[1].trace = <<>>
            /\ orders[o] = run[1].row
            /\ enr = run[1].pre.enr
            /\ userMap = run[1].pre.userMap
            /\ lmsUsers = run[1].pre.lmsUsers
            /\ \A c \in Courses :
                 CallsFor(lastSaga[o].trace, c) + CallsFor(run[1].trace, c) <= 1

C1_Witness ==
    /\ SecondDelivery(run[1], 1)
    /\ run[1].row.status = "fulfilled"
    /\ run[1].pc = "done"
    /\ lastSaga[1].result.ok
    /\ Len(EnrollCallsOf(lastSaga[1].trace)) = 3

\* C2: a request that found its order fulfilled when it loaded it (any
\* delivery that arrives after the order became fulfilled) never changes the
\* order row, the EnrollmentAttempt rows or UserMap and never calls the LMS.
C2_NoSideEffectAfterFulfilled ==
    [][\A h \in Handlers :
         (Stepped(h) /\ run'[h].oid # 0 /\ run'[h].row.status = "fulfilled") =>
            /\ orders'[run'[h].oid] = orders[run'[h].oid]
            /\ enr' = enr
            /\ userMap' = userMap
            /\ lms' = lms
            /\ \A k \in 1..Len(run'[h].trace) : run'[h].trace[k].op = "expired"
      ]_vars

C2_Witness ==
    \E h \in Handlers :
        /\ run[h].pc = "done"
        /\ run[h].ev = GoodCompleted(1)
        /\ run[h].row.status = "fulfilled"
        /\ run[h].resp = Resp(TRUE, "Already fulfilled")
        /\ orders[1].status = "fulfilled"

\* an event naming order o of tenant B, signed with the secret of another
\* tenant A whose secret differs from B's
CrossTenantSigned(e) ==
    /\ ~e.malformed
    /\ \E o \in OrderIds, a \in TenantIds :
        /\ (e.meta = o \/ (e.meta = 0 /\ e.cref = o))
        /\ a # TenantOfOrder(o)
        /\ WebhookSecret(TenantOfOrder(o)) # ""
        /\ WebhookSecret(a) # ""
        /\ WebhookSecret(a) # WebhookSecret(TenantOfOrder(o))
        /\ e.sig = WebhookSecret(a)

\* C3: tenant isolation.  A request signed with tenant A's secret that
\* names an order of tenant B is answered "Invalid Stripe signature" and no
\* step of it changes an order, an EnrollmentAttempt row, UserMap or the LMS.
C3_TenantIsolation ==
    [][\A h \in Handlers :
         (Stepped(h) /\ (CrossTenantSigned(run[h].ev) \/ CrossTenantSigned(run'[h].ev))) =>
            /\ UNCHANGED <<orders, enr, userMap, lmsUsers, enrollCalls, createCalls>>
            /\ (Started(h) =>
                  /\ run'[h].pc = "done"
                  /\ run'[h].resp = Resp(FALSE, "Invalid Stripe signature")
                  /\ run'[h].trace = <<>>)
            /\ (~Started(h) => run'[h].pc = "idle")
      ]_vars

C3_Witness ==
    \E h \in Handlers :
        /\ run[h].pc = "done"
        /\ run[h].ev = [GoodCompleted(2) EXCEPT !.sig = WebhookSecret(1)]
        /\ CrossTenantSigned(run[h].ev)
        /\ run[h].resp.message = "Invalid Stripe signature"
        /\ orders[2].status = "pending"

\* C4: expiry race.  An order that is paid or fulfilled is never moved to
\* expired, by any step of any handler.
C4_PaidNeverExpires ==
    [][\A o \in OrderIds :
         orders[o].status \in {"paid", "fulfilled"} => orders'[o].status # "expired"
      ]_vars

\* an expired event for the order's own session was applied while the
\* order was paid, and the order is still paid
C4_Witness ==
    \E h \in Handlers, o \in OrderIds :
        /\ run[h].pc = "done"
        /\ run[h].ev.type = "checkout.session.expired"
        /\ run[h].oid = o
        /\ run[h].ev.sid = orders[o].stripe_session_id
        /\ run[h].trace = <<[op |-> "expired", arg |-> o, res |-> "paid"]>>
        /\ orders[o].status = "paid"

\* courses linked to the order's product, for the order's tenant
LinkedSet(o) ==
    { r.moodle_course_id :
        r \in { x \in product_courses :
                  /\ x.tenant_id = TenantOfOrder(o)
                  /\ x.product_id = InitOrders[o].product_id } }

EnrollSeq(tr) == [k \in 1..Len(EnrollCallsOf(tr)) |-> EnrollCallsOf(tr)[k].arg]
SeqSet(q) == { q[k] : k \in 1..Len(q) }
StrictlyAscending(q) == \A a, b \in 1..Len(q) : a < b => q[a] < q[b]
EnrollFailed(tr) == \E k \in 1..Len(tr) : tr[k].op = "enroll" /\ tr[k].res # "ok"
FailedCourse(tr) == (CHOOSE x \in SeqSet(tr) : x.op = "enroll" /\ x.res # "ok").arg
LastOp(tr) == IF tr = <<>> THEN "" ELSE tr[Len(tr)].op

\* the previous saga run for o enrolled some courses, then failed at a later one
PrevFailedMidway(o) ==
    /\ lastSaga[o].seqno # 0
    /\ ~lastSaga[o].result.ok
    /\ lastSaga[o].result.enrolled_courses # <<>>
    /\ EnrollFailed(lastSaga[o].trace)

\* C5: resume correctness.  After a saga run for an order enrolled some
\* courses and failed at a later one, the next saga run for that order never
\* calls enroll for a course recorded as enrolled; the failed course is among
\* the courses still to do; its enroll calls go through the courses still to
\* do in ascending order without leaving one out; and when no LMS call of
\* the run fails it returns ok having called enroll for exactly those courses.
C5_ResumeSkipsEnrolledAndRetries ==
    \A o \in OrderIds :
        (PrevFailedMidway(o) /\ run[1].pc # "idle" /\ run[1].oid = o) =>
            LET r == run[1]
                done == RecordedEnrolled(r.pre.enr, o)
                todo == LinkedSet(o) \ done
                q == EnrollSeq(r.trace)
            IN /\ \A c \in done : CallsFor(r.trace, c) = 0
               /\ FailedCourse(lastSaga[o].trace) \in todo
               /\ SeqSet(q) \subseteq todo
               /\ StrictlyAscending(q)
               /\ \A c \in todo : (q # <<>> /\ c < q[Len(q)]) => c \in SeqSet(q)
               /\ (r.pc = "done" /\ RanSaga(r) /\ NoLmsFailure(r.trace)) =>
                     (r.result.ok /\ SeqSet(q) = todo)

C5_Witness ==
    /\ PrevFailedMidway(1)
    /\ lastSaga[1].result.enrolled_courses = <<101>>
    /\ FailedCourse(lastSaga[1].trace) = 102
    /\ run[1].pc = "done"
    /\ run[1].oid = 1
    /\ run[1].result.ok
    /\ run[1].result.skipped_courses = <<101>>
    /\ EnrollSeq(run[1].trace) = <<102, 103>>

EndToEndScenario(r, o) ==
    /\ r.pc # "idle"
    /\ r.oid = o
    /\ AcceptableCompleted(r.ev, o)
    /\ r.ev.ps = "paid"
    /\ r.ev.email # ""
    /\ r.row.status = "pending"
    /\ tenants[TenantOfOrder(o)].moodle_url # ""
    /\ tenants[TenantOfOrder(o)].moodle_token # ""
    /\ LinkedSet(o) # {}
    /\ r.pre.lmsUsers[<<TenantOfOrder(o), r.ev.email>>] = <<>>
    /\ NoLmsFailure(r.trace)
    /\ NoWriteFailure(r.trace)

C8_FulfilledNeverRegresses ==
    [][\A o \in OrderIds :
         orders[o].status = "fulfilled" => orders'[o].status = "fulfilled"
      ]_vars

\* a handler that loaded the order before it was fulfilled ran mark-paid
\* on the fulfilled order and left it fulfilled
C8_Witness ==
    \E h \in Handlers, o \in OrderIds :
        /\ orders[o].status = "fulfilled"
        /\ run[h].oid = o
        /\ run[h].row.status # "fulfilled"
        /\ run[h].pc = "find"
        /\ run[h].trace = <<[op |-> "paid", arg |-> o, res |-> "fulfilled"]>>

\* C9: expired is terminal: an order whose status is expired never changes
\* status again.  _set_order_paid_if_needed does not keep this.
C9_ExpiredIsTerminal ==
    [][\A o \in OrderIds :
         orders[o].status = "expired" => orders'[o].status = "expired"
      ]_vars

\* What the code keeps of C9: an expired order changes status only by the mark-paid
\* write of a handler processing a verified checkout-completed event for that
\* order (its session id, payment_status paid or absent, buyer email
\* available), and that write moves it to paid; every other step, a
\* checkout-expired event included, leaves it expired.
C9_ExpiredLeavesOnlyByPayment ==
    [][\A o \in OrderIds :
         (orders[o].status = "expired" /\ orders'[o].status # "expired") =>
            /\ orders'[o].status = "paid"
            /\ \E h \in Handlers :
                 /\ run[h].pc = "markpaid"
                 /\ run'[h].pc = "find"
                 /\ run[h].oid = o
                 /\ AcceptableCompleted(run[h].ev, o)
                 /\ run[h].final_email # ""
      ]_vars

C9_Witness ==
    \E h \in Handlers :
        /\ run[h].oid = 1
        /\ run[h].row.status = "expired"
        /\ run[h].pc = "find"
        /\ run[h].trace = <<[op |-> "paid", arg |-> 1, res |-> "expired"]>>
        /\ orders[1].status = "paid"

\* missing signature header, malformed body, or a signature that does not
\* verify against the secret of the tenant of the order the request names
FailsVerification(e) ==
    \/ e.sig = ""
    \/ e.malformed
    \/ \E o \in OrderIds :
         /\ (e.meta = o \/ (e.meta = 0 /\ e.cref = o))
         /\ WebhookSecret(TenantOfOrder(o)) # ""
         /\ e.sig # WebhookSecret(TenantOfOrder(o))

\* C10: a request that fails verification is answered at once with ok =
\* false and no step of it changes orders, EnrollmentAttempt rows, UserMap or
\* the LMS.
C10_VerificationFailureMutatesNothing ==
    [][\A h \in Handlers :
         (Stepped(h) /\ \/ (run[h].pc # "idle" /\ FailsVerification(run[h].ev))
                        \/ (Started(h) /\ FailsVerification(run'[h].ev))) =>
            /\ UNCHANGED <<orders, enr, userMap, lmsUsers, enrollCalls, createCalls>>
            /\ (Started(h) =>
                  /\ run'[h].pc = "done"
                  /\ ~run'[h].resp.ok
                  /\ run'[h].trace = <<>>)
            /\ (~Started(h) => run'[h].pc = "idle")
      ]_vars

\* two requests in flight were both refused: one without signature header,
\* one with a malformed body
C10_Witness ==
    \E h, g \in Handlers :
        /\ run[h].pc = "done"
        /\ run[h].ev.sig = ""
        /\ run[h].resp = Resp(FALSE, "Missing Stripe-Signature header")
        /\ run[g].pc = "done"
        /\ run[g].ev.malformed
        /\ run[g].ev.sig # ""
        /\ run[g].resp = Resp(FALSE, "Invalid JSON payload")
        /\ orders = InitOrders
        /\ enr = {}

\* C11: a request without signature header, with a malformed body, or with
\* a signature that does not verify is answered with a client-error (4xx)
\* HTTP status.  stripe_webhook returns a dict in all three cases, which the
\* framework sends with status 200.
C11_VerificationFailureIsClientError ==
    \A h \in Handlers :
        (run[h].pc = "done" /\ FailsVerification(run[h].ev)) =>
            run[h].resp.http \in 400..499

\* the payload carries no usable order id
NoOrderId(e) == e.meta < 0 \/ (e.meta = 0 /\ e.cref <= 0)
NamesOrder(e, o) == e.meta = o \/ (e.meta = 0 /\ e.cref = o)
HandledTypes == {"checkout.session.completed", "checkout.session.expired"}

\* understood but not actionable, given the orders table O at receipt: no
\* order id, order not found, tenant without webhook secret, or a verified
\* event that is of an unhandled type or is a completed event with a session
\* mismatch, a payment status other than paid, or an already fulfilled order.
\* (An order-id mismatch cannot be put in a request: both extractions read
\* the same body.)
NotActionable(O, e) ==
    /\ e.sig # ""
    /\ ~e.malformed
    /\ \/ NoOrderId(e)
       \/ (~NoOrderId(e) /\ \A o \in DOMAIN O : ~NamesOrder(e, o))
       \/ \E o \in DOMAIN O :
            /\ NamesOrder(e, o)
            /\ \/ WebhookSecret(O[o].tenant_id) = ""
               \/ /\ e.sig = WebhookSecret(O[o].tenant_id)
                  /\ \/ e.type \notin HandledTypes
                     \/ /\ e.type = "checkout.session.completed"
                        /\ \/ (O[o].stripe_session_id # "" /\ O[o].stripe_session_id # e.sid)
                           \/ e.ps \notin {"", "paid"}
                           \/ O[o].status = "fulfilled"

C15_OneRowPerOrderCourse ==
    \A o \in OrderIds, c \in Courses : Cardinality(RowsOf(enr, o, c)) <= 1

\* two handlers of the same order both wrote checkpoints for the same
\* course and both called enroll for it; there is still one row
C15_Witness ==
    /\ enrollCalls[<<1, 101>>] = 2
    /\ Cardinality(RowsOf(enr, 1, 101)) = 1
    /\ \A h \in Handlers :
         \E k \in 1..Len(run[h].trace) :
            /\ run[h].trace[k] = [op |-> "attempt", arg |-> 101, res |-> "ok"]

\* the checkout request whose payment-processor call failed has returned
StripeCallFailed == tx.pc = "done" /\ tx.stripe = "err"

\* C13: checkout creation inserts the order, pending and with the computed
\* total, before it contacts the payment processor; when the processor call
\* fails the error is returned and the order remains in the database in
\* pending status.  The handler rolls the insert back instead.
C13_OrderStaysPendingOnStripeFailure ==
    /\ tx.pc = "stripe" =>
          (tx.inserted /\ tx.row.status = "pending"
             /\ tx.row.total_cents = tx.unit_amount)
    /\ StripeCallFailed =>
          /\ ~tx.resp.ok
          /\ tx.order_id \in DOMAIN orders
          /\ orders[tx.order_id].status = "pending"

\* C13 (amended): the order is inserted, pending and with the computed
\* total, before the payment processor is contacted (no session exists for
\* it yet), inside a transaction that is not yet committed; when the
\* processor call fails the error is returned to the caller (ok = false with
\* the error text) and the transaction is rolled back, so the orders table is
\* as it was before the request and holds no row for that order.
C13_InsertThenRollbackOnStripeFailure ==
    /\ tx.pc = "stripe" =>
          /\ tx.inserted
          /\ tx.row.status = "pending"
          /\ tx.row.total_cents = tx.unit_amount
          /\ tx.order_id \notin DOMAIN orders
          /\ \A x \in sessions : x.order_id # tx.order_id
    /\ StripeCallFailed =>
          /\ ~tx.resp.ok
          /\ tx.resp.message # ""
          /\ orders = tx.before
          /\ tx.order_id \notin DOMAIN orders
          /\ \A x \in sessions : x.order_id # tx.order_id

C13_Witness ==
    /\ StripeCallFailed
    /\ tx.product_id = 1
    /\ tx.order_id = 5
    /\ tx.row.total_cents = 1999
    /\ orders = InitOrders

\* the price a product is sold at, as entered: the discount when one is set
EnteredPrice(p) ==
    IF ProductInputs[p].discounted_price > 0
    THEN ProductInputs[p].discounted_price
    ELSE ProductInputs[p].price

\* c cents is the amount m (in thousandths) times 100, rounded half-up
IsHalfUpCents(c, m) == 10 * c - 5 <= m /\ m < 10 * c + 5

\* C14: the charge amount of a checkout is the product's price times 100
\* rounded half-up, the discount price taking priority over the base price
\* when set; 19.99 without discount gives 1999 and a discount of 15.995
\* gives 1600.  It is the total stored on the order and the amount sent to
\* the payment processor; a request is refused as "Invalid price" only when
\* that amount is below 50.
C14_ChargeIsHalfUpCents ==
    /\ tx.pc \in {"insert", "stripe", "persist"} =>
          /\ IsHalfUpCents(tx.unit_amount, EnteredPrice(tx.product_id))
          /\ tx.product_id = 1 => tx.unit_amount = 1999
          /\ tx.product_id = 3 => tx.unit_amount = 1600
    /\ (tx.pc = "done" /\ tx.resp.message = "Invalid price") =>
          EnteredPrice(tx.product_id) < 495
    /\ tx.pc \in {"stripe", "persist"} => tx.row.total_cents = tx.unit_amount
    /\ \A x \in sessions :
          x.id = tx.session_id => x.unit_amount = tx.unit_amount
    /\ \A o \in DOMAIN orders :
          IsHalfUpCents(orders[o].total_cents, EnteredPrice(orders[o].product_id))

\* an order for the 19.99 product was created at 1999 and a session for
\* the product discounted to 15.995 has been created at 1600
C14_Witness ==
    /\ tx.pc = "persist"
    /\ tx.product_id = 3
    /\ tx.unit_amount = 1600
    /\ \E x \in sessions : x.id = tx.session_id /\ x.unit_amount = 1600
    /\ \E o \in DOMAIN orders \ DOMAIN InitOrders :
          orders[o].product_id = 1 /\ orders[o].total_cents = 1999

\* handler h makes the LMS enroll call for (o, c) in this step
EnrollCallBy(h, o, c) ==
    /\ run[h].pc = "enroll"
    /\ run'[h].pc = "record"
    /\ run[h].oid = o
    /\ enrollCalls'[<<o, c>>] = enrollCalls[<<o, c>>] + 1

EnrolledOk(tr, c) == \E k \in 1..Len(tr) : tr[k] = [op |-> "enroll", arg |-> c, res |-> "ok"]

\* C16: the skip check is no mutual exclusion.  The only guard before an
\* enroll call is the handler's own already-enrolled set, read once before
\* its loop: every enroll call for (order, course) is made by a handler whose
\* set does not hold the course, whatever has been committed since.  Hence
\* two handlers of the same completed event can both call enroll for the
\* same (order, course): the witness is such a state, reached without any
\* failure.
C16_SkipCheckIsTheOnlyGuard ==
    [][\A o \in OrderIds, c \in Courses :
         enrollCalls'[<<o, c>>] # enrollCalls[<<o, c>>] =>
            \E h \in Handlers :
               /\ EnrollCallBy(h, o, c)
               /\ c \notin run[h].already_enrolled
               /\ c \in LinkedSet(o)
      ]_vars

C16_Witness ==
    /\ faults = 0
    /\ enrollCalls[<<1, 101>>] = 2
    /\ \A h \in Handlers :
          /\ run[h].ev = GoodCompleted(1)
          /\ run[h].row.status # "fulfilled"
          /\ 101 \notin run[h].already_enrolled
          /\ EnrolledOk(run[h].trace, 101)

\* C17: an order becomes fulfilled only by the handler of a verified
\* completed event for it whose saga run returned ok with every linked
\* course either enrolled by that run or found enrolled when the run loaded
\* the checkpoint log; a handler whose saga run returns not-ok (missing LMS
\* credentials, find-user or create-user error, no linked courses, enroll
\* failure) writes nothing to the order after mark-paid: it never sets
\* fulfilled and leaves the order paid (or fulfilled by another handler).
C17_FulfilledOnlyAfterSagaSuccess ==
    [][/\ \A o \in OrderIds :
            (orders[o].status # "fulfilled" /\ orders'[o].status = "fulfilled") =>
               \E h \in Handlers :
                  /\ run[h].pc = "fulfill"
                  /\ run'[h].pc = "done"
                  /\ run[h].oid = o
                  /\ VerifiedCompleted(run[h].ev, o)
                  /\ run'[h].result.ok
                  /\ LinkedSet(o) # {}
                  /\ \A c \in LinkedSet(o) :
                        c \in run[h].already_enrolled \/ EnrolledOk(run[h].trace, c)
       /\ \A h \in Handlers :
            (Stepped(h) /\ run'[h].pc = "done" /\ RanSaga(run'[h])
               /\ ~run'[h].result.ok) =>
               /\ orders' = orders
               /\ orders[run[h].oid].status \in {"paid", "fulfilled"}
               /\ \A k \in 1..Len(run'[h].trace) : run'[h].trace[k].op # "fulfilled"
               /\ run'[h].result.message # ""
      ]_vars

\* one handler's saga run failed at an enroll call and left the order
\* alone; the other handler's run succeeded and fulfilled it
C17_Witness ==
    \E h, g \in Handlers :
        /\ run[h].pc = "done"
        /\ run[h].oid = 1
        /\ RanSaga(run[h])
        /\ ~run[h].result.ok
        /\ EnrollFailed(run[h].trace)
        /\ run[g].pc = "done"
        /\ run[g].oid = 1
        /\ run[g].result.ok
        /\ LastOp(run[g].trace) = "fulfilled"
        /\ orders[1].status = "fulfilled"

\* the courses for which the trace holds an enroll call that returned ok
RECURSIVE OkCourses(_)
OkCourses(tr) ==
    IF tr = <<>> THEN <<>>
    ELSE (IF Head(tr).op = "enroll" /\ Head(tr).res = "ok"
          THEN <<Head(tr).arg>> ELSE <<>>) \o OkCourses(Tail(tr))

LoopOps == {"attempt", "enroll", "enrolled", "failed"}

\* a saga run of the (only) handler has returned after a failed enroll call
ReturnedAfterEnrollFailure ==
    run[1].pc = "done" /\ RanSaga(run[1]) /\ EnrollFailed(run[1].trace)

\* what C18 says of the run apart from the row: not-ok with the error text
\* and the courses enrolled so far, and nothing done for a later course
AbortsAtFailedCourse(r) ==
    LET f == FailedCourse(r.trace)
        n == Len(r.trace)
    IN /\ ~r.result.ok
       /\ r.result.message # ""
       /\ r.result.enrolled_courses = OkCourses(r.trace)
       /\ r.trace[n].op = "failed" /\ r.trace[n].arg = f
       /\ r.trace[n - 1].op = "enroll" /\ r.trace[n - 1].arg = f
       /\ r.trace[n - 1].res # "ok"
       /\ \A k \in 1..n : r.trace[k].op \in LoopOps => r.trace[k].arg <= f
       /\ \A c \in LinkedSet(r.oid) :
             c > f => RowsOf(enr, r.oid, c) = RowsOf(r.pre.enr, r.oid, c)

\* C18 as stated: when the enroll call for a course fails, that course's
\* row is failed with the error text, the run returns not-ok with the
\* courses enrolled so far, and nothing is done for any later course.
C18_FailedRowAlwaysWritten ==
    ReturnedAfterEnrollFailure =>
        /\ AbortsAtFailedCourse(run[1])
        /\ \E x \in RowsOf(enr, run[1].oid, FailedCourse(run[1].trace)) :
              x.status = "failed" /\ x.error # ""

\* C18 (amended): when the enroll call for a course fails, the run upserts
\* that course's row to failed with the error text and then returns not-ok
\* with the error text and the courses enrolled so far, having made no enroll
\* call and no checkpoint write for any later course.  When the upsert goes
\* through the row is failed with that error text; when the upsert itself
\* fails the failure is swallowed and the row is left as it was.
C18_EnrollFailureAbortsLoop ==
    ReturnedAfterEnrollFailure =>
        LET r == run[1]
            f == FailedCourse(r.trace)
            w == r.trace[Len(r.trace)]
            a == r.trace[Len(r.trace) - 2]
        IN /\ AbortsAtFailedCourse(r)
           /\ w.res = "ok" =>
                 \E x \in RowsOf(enr, r.oid, f) :
                    /\ x.status = "failed"
                    /\ x.error = r.result.message
                    /\ x.moodle_user_id = r.result.moodle_user_id
           /\ (w.res # "ok" /\ a = [op |-> "attempt", arg |-> f, res |-> "ok"]) =>
                 \E x \in RowsOf(enr, r.oid, f) : x.status = "attempt"

\* course 101 was enrolled, the call for 102 failed and its row is failed;
\* nothing exists for 103
C18_Witness ==
    /\ ReturnedAfterEnrollFailure
    /\ run[1].oid = 1
    /\ run[1].result.enrolled_courses = <<101>>
    /\ FailedCourse(run[1].trace) = 102
    /\ \E x \in RowsOf(enr, 1, 102) : x.status = "failed" /\ x.error = "MoodleError"
    /\ RowsOf(enr, 1, 103) = {}
    /\ enrollCalls[<<1, 103>>] = 0

\* the handler is between its attempt write for a course and the recording
\* of the call's outcome
InCall(r) == r.pc \in {"enroll", "record"}
CurrentCourse(r) == r.course_ids[r.i]
AttemptRowOf(r) ==
    \E x \in RowsOf(enr, r.oid, CurrentCourse(r)) :
        x.status = "attempt" /\ x.moodle_user_id = r.moodle_user_id

\* every enroll call in the trace comes right after an attempt write for
\* the same course
AttemptBeforeEachCall(tr) ==
    \A k \in 1..Len(tr) :
        tr[k].op = "enroll" =>
            k > 1 /\ tr[k - 1].op = "attempt" /\ tr[k - 1].arg = tr[k].arg

C20_CoursesDedupedAscending ==
    \A h \in Handlers :
        LET r == run[h]
            q == EnrollSeq(r.trace)
        IN r.oid # 0 =>
             /\ r.pc \in {"attempt", "enroll", "record", "fulfill"} =>
                   /\ SeqSet(r.course_ids) = LinkedSet(r.oid)
                   /\ Len(r.course_ids) = Cardinality(LinkedSet(r.oid))
                   /\ StrictlyAscending(r.course_ids)
             /\ SeqSet(q) \subseteq LinkedSet(r.oid)
             /\ StrictlyAscending(q)
             /\ \A c \in Courses : CallsFor(r.trace, c) <= 1

\* two overlapping runs for the same order each called enroll for 101, 102
\* and 103 in that order
C20_Witness ==
    \A h \in Handlers :
        /\ run[h].oid = 1
        /\ run[h].course_ids = <<101, 102, 103>>
        /\ EnrollSeq(run[h].trace) = <<101, 102, 103>>

\* ---------------------------------------------------------------------
\* C21
\* ---------------------------------------------------------------------
\* the request of r was signed with the webhook secret of the tenant on
\* the order row that its claimed order id loaded
SignedForLoadedOrder(r) ==
    /\ r.oid # 0
    /\ r.oid = ExtractOrderId(r.ev)
    /\ r.row.tenant_id = TenantOfOrder(r.oid)
    /\ r.ev.sig # ""
    /\ r.ev.sig = WebhookSecret(r.row.tenant_id)

\* the same request with another metadata.tenant_id
WithPayloadTenant(e, m) == [e EXCEPT !.mtenant = m]

\* C21: the secret that verifies a request is the webhook secret of the
\* tenant on the order row loaded by the claimed order id: a request is
\* routed to a write only when it is signed with that secret, whatever
\* metadata.tenant_id says; the same request with any other
\* metadata.tenant_id would have been answered or routed the same way;
\* and every step that writes to the database or calls
\* the LMS belongs to a request that passed this verification.
C21_SecretFromLoadedOrderOnly ==
    [][ \A h \in Handlers :
          /\ (Started(h) /\ run'[h].pc # "done") => SignedForLoadedOrder(run'[h])
          /\ Started(h) =>
                \A m \in {0} \cup TenantIds :
                    Decide(orders, WithPayloadTenant(run'[h].ev, m)) =
                        Decision(run'[h].pc, run'[h].resp, run'[h].final_email)
          /\ (Stepped(h) /\ (db' # db \/ lms' # lms)) => SignedForLoadedOrder(run[h])
      ]_vars

\* a request for an order of tenant 2 whose payload names tenant 1 has
\* been verified with tenant 2's secret and has marked the order paid,
\* and the same payload signed with tenant 1's secret was turned down
C21_Witness ==
    /\ \E h \in Handlers :
         /\ run[h].ev.mtenant = 1
         /\ run[h].row.tenant_id = 2
         /\ run[h].ev.sig = WebhookSecret(2)
         /\ run[h].trace # <<>>
         /\ orders[run[h].oid].status = "paid"
    /\ \E g \in Handlers :
         /\ run[g].ev.mtenant = 1
         /\ run[g].row.tenant_id = 2
         /\ run[g].ev.sig = WebhookSecret(1)
         /\ run[g].pc = "done"
         /\ run[g].resp.message = "Invalid Stripe signature"

\* ---------------------------------------------------------------------
\* C22
\* ---------------------------------------------------------------------
\* a verified completed or expired event whose session id is not the one
\* stored on the order it names
SessionMismatch(r) ==
    /\ SignedForLoadedOrder(r)
    /\ r.ev.type \in HandledTypes
    /\ r.row.stripe_session_id # ""
    /\ r.ev.sid # r.row.stripe_session_id

\* C22: a verified completed or expired event whose session id differs
\* from the session id stored on the order is dropped: no step of its
\* request changes any order, any checkpoint row or the user map, and none
\* calls the LMS.
C22_SessionMismatchDropped ==
    [][ \A h \in Handlers :
          (Stepped(h) /\ SessionMismatch(run[h])) =>
              (orders' = orders /\ enr' = enr /\ userMap' = userMap /\ lms' = lms)
      ]_vars

\* ---------------------------------------------------------------------
\* C29
\* ---------------------------------------------------------------------
\* C29: a step of a request that carries a verified expired event changes
\* no order other than the one whose id the event carries.
C29_ExpiredTouchesOnlyNamedOrder ==
    [][ \A h \in Handlers :
          (Stepped(h) /\ SignedForLoadedOrder(run[h])
             /\ run[h].ev.type = "checkout.session.expired") =>
              \A o \in DOMAIN orders : o # run[h].oid => orders'[o] = orders[o]
      ]_vars

\* ---------------------------------------------------------------------
\* C23
\* ---------------------------------------------------------------------
\* C23: an order goes from pending to paid only by a step of a request
\* carrying a verified completed event for it with payment_status "paid";
\* a request carrying a completed event with any other payment_status
\* (absent and empty included) changes no order status and never gets
\* past routing.
C23_PaidOnlyWhenFundsCaptured ==
    [][ /\ \A o \in DOMAIN orders :
             (orders[o].status = "pending" /\ orders'[o].status = "paid") =>
                 \E h \in Handlers :
                     /\ Stepped(h)
                     /\ run[h].oid = o
                     /\ VerifiedCompleted(run[h].ev, o)
                     /\ run[h].ev.ps = "paid"
        /\ \A h \in Handlers :
             (Stepped(h) /\ run[h].ev.type = "checkout.session.completed"
                /\ run[h].ev.ps # "paid") =>
                 /\ \A o \in DOMAIN orders : orders'[o].status = orders[o].status
                 /\ run'[h].pc \in {"idle", "done"}
                 /\ run'[h].trace = <<>>
      ]_vars

\* ---------------------------------------------------------------------
\* C24
\* ---------------------------------------------------------------------
\* C24: when a request carrying a verified completed event with
\* payment_status "paid" and the order's own id and session id, received
\* while the order was pending, has been processed, the order is paid or
\* fulfilled; a missing buyer email and a failing saga make no difference.
C24_ProcessedPaymentLeavesPaid ==
    \A h \in Handlers :
        (/\ run[h].pc = "done"
         /\ run[h].oid \in OrderIds
         /\ AcceptableCompleted(run[h].ev, run[h].oid)
         /\ run[h].ev.ps = "paid"
         /\ run[h].row.status = "pending") =>
            orders[run[h].oid].status \in {"paid", "fulfilled"}

\* ---------------------------------------------------------------------
\* C25
\* ---------------------------------------------------------------------
\* the tenant has no LMS base URL or no LMS token
LmsNotConfigured(t) == tenants[t].moodle_url = "" \/ tenants[t].moodle_token = ""

ConfigError == "Tenant Moodle not configured"

\* C25: for a tenant without LMS base URL or token, the first step of the
\* saga returns not-ok with the configuration error; that step and the
\* rest of the request make no LMS call, write no checkpoint row and no
\* user-map row, and leave the order paid.  Orders of such a tenant never
\* have a checkpoint row, an enrolment call or status fulfilled.
C25_NoLmsConfigFailsAtOnce ==
    [][ /\ \A h \in Handlers :
             (Stepped(h) /\ run[h].pc \notin {"idle", "markpaid", "expire"}
                /\ run[h].oid \in OrderIds
                /\ LmsNotConfigured(run[h].row.tenant_id)) =>
                 /\ run[h].pc \in {"find", "done"}
                 /\ run[h].pc = "find" =>
                       /\ run'[h].pc = "done"
                       /\ run'[h].result.ok = FALSE
                       /\ run'[h].result.message = ConfigError
                       /\ orders[run[h].oid].status = "paid"
                 /\ LmsCalls(run'[h].trace) = <<>>
                 /\ orders' = orders /\ enr' = enr /\ userMap' = userMap /\ lms' = lms
        /\ \A o \in OrderIds :
             LmsNotConfigured(TenantOfOrder(o)) =>
                 /\ orders'[o].status # "fulfilled"
                 /\ \A c \in Courses : RowsOf(enr', o, c) = {} /\ enrollCalls'[<<o, c>>] = 0
      ]_vars

\* a request for an order of a tenant without LMS configuration has
\* marked the order paid and its saga has returned the configuration error
C25_Witness ==
    \E h \in Handlers :
        /\ run[h].pc = "done"
        /\ run[h].oid \in OrderIds
        /\ LmsNotConfigured(run[h].row.tenant_id)
        /\ RanSaga(run[h])
        /\ run[h].result.message = ConfigError
        /\ orders[run[h].oid].status = "paid"

\* ---------------------------------------------------------------------
\* C26
\* ---------------------------------------------------------------------
\* C26: after any sequence of product create and update requests, every
\* product that has a discounted price has one strictly below its price.
C26_DiscountBelowPrice ==
    \A p \in DOMAIN catalog :
        catalog[p].discounted_price # NoPrice =>
            catalog[p].discounted_price < catalog[p].price

\* ---------------------------------------------------------------------
\* C27
\* ---------------------------------------------------------------------
\* the request of r has committed checkpoint row 'enrolled' for course c
WroteEnrolled(r, c) ==
    \E k \in 1..Len(r.trace) : r.trace[k] = [op |-> "enrolled", arg |-> c, res |-> "ok"]

\* C27 as stated: a checkpoint row that is enrolled stays enrolled, in
\* every interleaving of requests for the same order.
C27_EnrolledRowNeverRegresses ==
    [][ \A o \in OrderIds, c \in Courses :
          HasRow(enr, o, c, "enrolled") => HasRow(enr', o, c, "enrolled")
      ]_vars

\* C27, restated: a request takes its already-enrolled set from the rows
\* that are enrolled when it enters the loop, and a checkpoint row that is
\* enrolled changes status only by the attempt write or the failed write
\* of a request for the same order whose already-enrolled set does not
\* hold the course, i.e. one that entered the loop before the row became
\* enrolled.  A request that enters the loop afterwards never changes it.
C27_EnrolledRowRegressesOnlyByOverlap ==
    [][ /\ \A h \in Handlers :
             (Stepped(h) /\ run[h].pc = "courses" /\ run'[h].pc # "done") =>
                 run'[h].already_enrolled = RecordedEnrolled(enr, run[h].oid)
        /\ \A o \in OrderIds, c \in Courses :
             (HasRow(enr, o, c, "enrolled") /\ ~HasRow(enr', o, c, "enrolled")) =>
                 \E h \in Handlers :
                     /\ Stepped(h)
                     /\ run[h].oid = o
                     /\ run[h].pc \in {"attempt", "record"}
                     /\ CurrentCourse(run[h]) = c
                     /\ c \notin run[h].already_enrolled
                     /\ HasRow(enr', o, c, IF run[h].pc = "attempt" THEN "attempt" ELSE "failed")
      ]_vars

\* two overlapping requests for one order: one has committed a course as
\* enrolled, the other has since overwritten that row with 'attempt'
C27_Witness ==
    \E h \in Handlers, g \in Handlers, c \in Courses :
        /\ h # g
        /\ run[h].oid \in OrderIds
        /\ run[g].oid = run[h].oid
        /\ WroteEnrolled(run[g], c)
        /\ c \notin run[h].already_enrolled
        /\ run[h].pc = "enroll"
        /\ CurrentCourse(run[h]) = c
        /\ HasRow(enr, run[h].oid, c, "attempt")

\* ---------------------------------------------------------------------
\* C28
\* ---------------------------------------------------------------------
\* the request of r called enrol for c with success and then went on to
\* the 'enrolled' checkpoint write for c, whether or not that write failed
EnrolledAndRecorded(tr, c) ==
    \E k \in 1..(Len(tr) - 1) :
        /\ tr[k] = [op |-> "enroll", arg |-> c, res |-> "ok"]
        /\ tr[k + 1].op = "enrolled"
        /\ tr[k + 1].arg = c

InLoop(r) == r.pc \in {"attempt", "enroll", "record"}

\* C28 as stated: in every reachable state a fulfilled order has a
\* checkpoint row with status enrolled for every course linked to its
\* product.
C28_FulfilledHasAllRowsEnrolled ==
    \A o \in OrderIds :
        orders[o].status = "fulfilled" =>
            \A c \in LinkedSet(o) : HasRow(enr, o, c, "enrolled")

\* C28, restated: (1) a checkpoint row becomes enrolled only by the
\* outcome write that follows a successful enrol call for that order and
\* course; (2) when an order becomes fulfilled, every course linked to its
\* product was in the fulfilling request's already-enrolled set or was
\* enrolled by that request with success and passed to the 'enrolled'
\* write, which is best-effort; (3) once no failure has been injected and
\* no request for the order is inside the loop, a fulfilled order has
\* every linked course's row enrolled.
C28_FulfilledCoursesWereEnrolled ==
    [][ /\ \A o \in OrderIds, c \in Courses :
             (~HasRow(enr, o, c, "enrolled") /\ HasRow(enr', o, c, "enrolled")) =>
                 \E h \in Handlers :
                     /\ Stepped(h)
                     /\ run[h].oid = o
                     /\ run[h].pc = "record"
                     /\ CurrentCourse(run[h]) = c
                     /\ run[h].trace[Len(run[h].trace)] = [op |-> "enroll", arg |-> c, res |-> "ok"]
        /\ \A o \in OrderIds :
             (orders[o].status # "fulfilled" /\ orders'[o].status = "fulfilled") =>
                 \E h \in Handlers :
                     /\ Stepped(h)
                     /\ run[h].oid = o
                     /\ \A c \in LinkedSet(o) :
                           \/ c \in run[h].already_enrolled
                           \/ EnrolledAndRecorded(run[h].trace, c)
        /\ \A o \in OrderIds :
             (/\ orders'[o].status = "fulfilled"
              /\ faults' = 0
              /\ \A h \in Handlers : run'[h].oid = o => ~InLoop(run'[h])) =>
                 \A c \in LinkedSet(o) : HasRow(enr', o, c, "enrolled")
      ]_vars

\* an order is fulfilled although the 'enrolled' write of one of its
\* courses failed and left the row in 'attempt'
C28_Witness ==
    \E h \in Handlers, c \in Courses :
        /\ run[h].pc = "done"
        /\ run[h].oid \in OrderIds
        /\ orders[run[h].oid].status = "fulfilled"
        /\ c \in LinkedSet(run[h].oid)
        /\ \E k \in 1..Len(run[h].trace) :
              run[h].trace[k] = [op |-> "enrolled", arg |-> c, res |-> "dberr"]
        /\ HasRow(enr, run[h].oid, c, "attempt")
        /\ LastOp(run[h].trace) = "fulfilled"

\* ---------------------------------------------------------------------
\* C30
\* ---------------------------------------------------------------------
BuyerKey(r) == <<r.row.tenant_id, r.final_email>>

\* C30 as stated: for one tenant and one buyer email, create-user is
\* called at most once, whatever the deliveries and their interleaving.
C30_CreateUserAtMostOnce ==
    \A k \in TenantIds \X Emails : createCalls[k] <= 1

\* C30, restated: create-user is called only by a request whose own
\* find-user by email has just returned no user; a request whose find-user
\* runs when the site has an account for that email takes the first
\* account, is not marked as having created a user and makes no
\* create-user call; every create-user call that succeeds adds one account.
C30_CreateOnlyAfterEmptyFind ==
    [][ /\ \A k \in TenantIds \X Emails :
             createCalls'[k] # createCalls[k] =>
                 \E h \in Handlers :
                     /\ Stepped(h)
                     /\ run[h].pc = "create"
                     /\ BuyerKey(run[h]) = k
                     /\ createCalls'[k] = createCalls[k] + 1
                     /\ run[h].trace[Len(run[h].trace)] = [op |-> "find", arg |-> 0, res |-> "ok"]
                     /\ Len(lmsUsers'[k]) <= Len(lmsUsers[k]) + 1
                     /\ run'[h].created <=> lmsUsers'[k] # lmsUsers[k]
        /\ \A h \in Handlers :
             (Stepped(h) /\ run[h].pc = "find" /\ run'[h].pc # "done"
                /\ lmsUsers[BuyerKey(run[h])] # <<>>) =>
                 /\ run'[h].pc = "usermap"
                 /\ run'[h].moodle_user_id = lmsUsers[BuyerKey(run[h])][1]
                 /\ ~run'[h].created
        /\ \A h \in Handlers :
             (Stepped(h) /\ run[h].pc \notin {"idle", "find", "create"}) =>
                 (createCalls' = createCalls /\ lmsUsers' = lmsUsers
                    /\ (run[h].pc # "done" => run'[h].created = run[h].created))
      ]_vars

\* a second request for a buyer whose account an earlier request created
\* has found that account and reused it: one create-user call in all
C30_Witness ==
    \E h \in Handlers :
        /\ run[h].pc = "courses"
        /\ run[h].oid \in OrderIds
        /\ lmsUsers[BuyerKey(run[h])] # <<>>
        /\ run[h].moodle_user_id = lmsUsers[BuyerKey(run[h])][1]
        /\ ~run[h].created
        /\ createCalls[BuyerKey(run[h])] = 1
        /\ \A k \in 1..Len(run[h].trace) : run[h].trace[k].op # "create"

====
